---- MODULE Spec2Model ----
(***************************************************************************)
(* A model of the chat bot: the bounded conversation window (context.py),  *)
(* the responder plugins (plugin.py), the message handler of the helper    *)
(* (main.py) and the receive loop (wechat.py).                             *)
(*                                                                         *)
(* A text is a sequence of characters, each character a one-element        *)
(* string; a character outside ASCII is written by its code point, e.g.    *)
(* "u3002" for the ideographic full stop.  Python's None is the record     *)
(* field none = TRUE.                                                      *)
(***************************************************************************)
EXTENDS Integers, Sequences, FiniteSets, TLC

VARIABLES
    mode,       \* which component the behaviour exercises
    cap,        \* ChatWindow.max_history of the window under test
    win,        \* ChatWindow._history of the window under test
    appended,   \* every record given to append so far, in call order
    rp_last,    \* RepeatPlugin.last_repeat
    rp_res,     \* what the last RepeatPlugin.handle call did
    rp_prev,    \* what the RepeatPlugin.handle call before it did
    cp_state,   \* ChatPlugin.last_check_time
    cp_res,     \* what the last ChatPlugin.handle call did
    cp_log,     \* per room: one entry per candidate text message, in order
    now,        \* int(time.time())
    contexts,   \* ContextManager._contexts
    inflight,   \* the message on_message is working on
    pc,         \* where on_message stands
    idx,        \* position in the plugin list of the running loop
    response_back, \* on_message's reply buffer
    trace,      \* the handle calls and the sends of this dispatch, in order
    outcome,    \* how the last dispatch ended
    delivered,  \* number of messages taken from the delivery channel
    w_op,       \* the last call on the window under test: its kind and arguments
    ai_in,      \* the backend under test and the raw text its model produced
    ai_out,     \* what chat returned for ai_in
    prev_outcome, \* how the dispatch before the last one ended
    snap,       \* ContextManager._contexts just before the push of the inbound message
    cl_text,    \* the text given to SingleRecord.clean
    cl_res,     \* what clean returned for cl_text
    mi_arg,     \* the max_ignore argument given to ChatPlugin.__init__
    mi_res,     \* the plugin built from mi_arg and its run of suppressed messages
    receiving,  \* wcf.is_receiving_msg()
    daemon_running, \* WeChat._daemon_running
    thread,     \* the GetMessage thread: not started, running f, or finished
    stop_pc,    \* where the call of stop_receiving_message stands
    stopped_at, \* the loop's position when stop_receiving_message was called
    checked_for, \* the message number the loop's last `while` test let it wait for
    arrived     \* number of messages the transport has put on the channel

windowVars == <<cap, win, appended>>
repeatVars == <<rp_last, rp_res, rp_prev>>
chatVars == <<cp_state, cp_res, cp_log>>
dispatchVars == <<contexts, inflight, pc, idx, response_back, trace, outcome, delivered>>
ghostVars == <<prev_outcome, snap>>
cleanVars == <<cl_text, cl_res>>
clampVars == <<mi_arg, mi_res>>
stopVars == <<receiving, daemon_running, thread, stop_pc, stopped_at, checked_for, arrived>>
lateVars == <<clampVars, stopVars>>
extraVars == <<w_op, ai_in, ai_out, ghostVars, cleanVars, lateVars>>
vars == <<mode, windowVars, repeatVars, chatVars, now, dispatchVars, extraVars>>

(***************************************************************************)
(* Bounds of the model.                                                    *)
(***************************************************************************)
MaxCap == 3
MaxAppends == 5
MaxWin == 4
MaxTime == 4
MaxCalls == 5
MaxMsgs == 2
MaxClock == 1
MaxChunks == 4
MaxTokens == 3

(***************************************************************************)
(* Python helpers.                                                         *)
(***************************************************************************)
Min(a, b) == IF a <= b THEN a ELSE b
Max(a, b) == IF a >= b THEN a ELSE b
SetMax(S) == CHOOSE x \in S : \A y \in S : y <= x
SetMin(S) == CHOOSE x \in S : \A y \in S : x <= y

\* s[i:] of a Python list, i possibly negative (i is the 0-based start).
PySliceFrom(s, i) ==
    LET start == IF i < 0 THEN Max(Len(s) + i, 0) ELSE Min(i, Len(s))
    IN  SubSeq(s, start + 1, Len(s))

\* s[:n] of a Python list, n >= 0.
PySliceTo(s, n) == SubSeq(s, 1, Min(n, Len(s)))

(***************************************************************************)
(* context.py: SingleRecord and ChatWindow.                                *)
(***************************************************************************)
SingleRecord(sender, text, t) == [sender |-> sender, text |-> text, t |-> t]

max_history == 100

\* ChatWindow.__init__(history, max_history)
ChatWindow(history, maxh) == [history |-> PySliceTo(history, maxh), max_history |-> maxh]

\* Mutant: a window that never evicts.
append_noevict(w, sender, text, t) ==
    [w EXCEPT !.history = Append(w.history, SingleRecord(sender, text, t))]

\* ChatWindow.append: pop(0) when full, then append.
append(w, sender, text, t) ==
    LET kept == IF Len(w.history) >= w.max_history THEN Tail(w.history) ELSE w.history
    IN  [w EXCEPT !.history = Append(kept, SingleRecord(sender, text, t))]

\* ChatWindow.empty
empty(w) == Len(w.history) = 0

\* Mutant: extend always adds `other` behind the old records.
extend_concat(w, other) == [w EXCEPT !.history = w.history \o other.history]

\* ChatWindow.extend: when the two windows together exceed max_history the
\* old window is cut by a slice and `other` is not added; otherwise `other`
\* is added behind the old records.
extend(w, other) ==
    IF Len(w.history) + Len(other.history) > w.max_history
    THEN [w EXCEPT !.history = PySliceFrom(w.history, -(w.max_history - Len(other.history)))]
    ELSE [w EXCEPT !.history = w.history \o other.history]

\* list.sort(key=lambda x: x.t) is stable: r goes behind the records of the
\* sorted list s whose t is not larger.
SortedInsert(s, r) ==
    LET k == Cardinality({i \in 1..Len(s) : s[i].t <= r.t})
    IN  SubSeq(s, 1, k) \o <<r>> \o SubSeq(s, k + 1, Len(s))

RECURSIVE SortedByT(_)
SortedByT(h) ==
    IF h = <<>> THEN <<>>
    ELSE SortedInsert(SortedByT(SubSeq(h, 1, Len(h) - 1)), h[Len(h)])

\* ChatWindow.sort
sort(w) == [w EXCEPT !.history = SortedByT(w.history)]

\* ChatWindow.latest_n: a new window (default max_history) over history[-n:]
\* when n < len, else the window itself.
latest_n(w, n) ==
    IF n < Len(w.history) THEN ChatWindow(PySliceFrom(w.history, -n), max_history) ELSE w

(***************************************************************************)
(* context.py: SingleRecord.clean.                                         *)
(***************************************************************************)
\* The character class of the first re.sub (CJK punctuation).
CJKPunct ==
    {"uFF0C", "u3002", "uFF01", "uFF1F", "uFF1B", "uFF1A", "u3001", "uFF08", "uFF09",
     "u300A", "u300B", "u3010", "u3011", "u201C", "u201D", "u2018", "u2019", "u2014", "u2026"}

\* The character class of the second re.sub (ASCII punctuation).
AsciiPunct ==
    {",", ".", "!", "?", ";", ":", "(", ")", "{", "}", "\"", "'", "[", "]", "<", ">"}

\* The character class [a-zA-Z] of the third re.sub.
Letters ==
    {"a", "b", "c", "d", "e", "f", "g", "h", "i", "j", "k", "l", "m", "n", "o", "p", "q",
     "r", "s", "t", "u", "v", "w", "x", "y", "z", "A", "B", "C", "D", "E", "F", "G", "H",
     "I", "J", "K", "L", "M", "N", "O", "P", "Q", "R", "S", "T", "U", "V", "W", "X", "Y", "Z"}

RemoveChars(text, S) == SelectSeq(text, LAMBDA c : c \notin S)

\* The third pattern, \[[a-zA-Z]{2-9}\]: "{2-9}" is no repetition in Python's
\* re, so the pattern is "[", one letter, the five characters {2-9}, "]".
StickerAt(text, i) ==
    /\ i + 7 <= Len(text)
    /\ text[i] = "["
    /\ text[i + 1] \in Letters
    /\ SubSeq(text, i + 2, i + 6) = <<"{", "2", "-", "9", "}">>
    /\ text[i + 7] = "]"

RECURSIVE RemoveStickersFrom(_, _)
RemoveStickersFrom(text, i) ==
    IF i > Len(text) THEN <<>>
    ELSE IF StickerAt(text, i) THEN RemoveStickersFrom(text, i + 8)
    ELSE <<text[i]>> \o RemoveStickersFrom(text, i + 1)

\* SingleRecord.clean: the three substitutions in the code's order.
clean(text) ==
    RemoveStickersFrom(RemoveChars(RemoveChars(text, CJKPunct), AsciiPunct), 1)

\* SingleRecord.pure_text
pure_text(r) == clean(r.text)

(***************************************************************************)
(* The names and texts the behaviours draw from.                           *)
(***************************************************************************)
SelfName == "Bot"
SelfNameChars == <<"B", "o", "t">>

(***************************************************************************)
(* plugin.py: what a handle call gives back.  A call either raises or      *)
(* returns (resp, cont); resp is None (none = TRUE) or a list of texts.    *)
(***************************************************************************)
Returned(noneResp, resp, cont) ==
    [raised |-> FALSE, none |-> noneResp, resp |-> resp, cont |-> cont]
NoneContinue == Returned(TRUE, <<>>, TRUE)
NoneStop == Returned(TRUE, <<>>, FALSE)
Raises == [raised |-> TRUE, none |-> TRUE, resp |-> <<>>, cont |-> FALSE]

\* A Python dict as a function; d[k] = v.
DictSet(d, k, v) == [x \in DOMAIN d \cup {k} |-> IF x = k THEN v ELSE d[x]]

(***************************************************************************)
(* plugin.py: RepeatPlugin.                                                *)
(***************************************************************************)
repeat_count == 2
context_length == 3
max_length == 2

\* blocked_set: the normalized texts of the records the bot sent.
blocked_set(h, myself) ==
    {pure_text(h[i]) : i \in {j \in 1..Len(h) : h[j].sender = myself}}

\* clear_context: the normalized texts that are neither empty nor blocked.
clear_context(h, myself) ==
    SelectSeq([i \in 1..Len(h) |-> pure_text(h[i])],
              LAMBDA x : x # <<>> /\ x \notin blocked_set(h, myself))

\* count_dict[text]: the 0-based positions of text in clear_context.
count_dict(cc, text) == {i - 1 : i \in {j \in 1..Len(cc) : cc[j] = text}}

\* max(count_dict.values(), key=len): the longest position list; among
\* equally long ones the first in the dict's insertion order, which is the
\* order of first occurrence.
max_repeat(cc) ==
    LET keys == {cc[i] : i \in 1..Len(cc)}
        better(x, y) ==
            \/ Cardinality(count_dict(cc, x)) > Cardinality(count_dict(cc, y))
            \/ /\ Cardinality(count_dict(cc, x)) = Cardinality(count_dict(cc, y))
               /\ SetMin(count_dict(cc, x)) <= SetMin(count_dict(cc, y))
    IN  count_dict(cc, CHOOSE x \in keys : \A y \in keys : better(x, y))

\* Mutant: the record is looked up at the group member's place in the history.
echo_record_by_place(h, myself) ==
    LET cc == clear_context(h, myself)
        modal == cc[SetMax(max_repeat(cc)) + 1]
    IN  h[SetMax({i \in 1..Len(h) : pure_text(h[i]) = modal /\ h[i].sender # myself})]

\* record = history[max_repeat[-1]]: the last position of the list, a position
\* in clear_context, used as an index into the history.
echo_record(h, myself) == h[SetMax(max_repeat(clear_context(h, myself))) + 1]

\* RepeatPlugin.handle(msg, history=w, self_name=myself), with `fetched` the
\* window fetch_history gives when w is empty.  Gives the result, the window
\* (extend changes it in place) and last_repeat.
RepeatPlugin_handle(type, roomid, w, myself, fetched, last_repeat) ==
    IF type # 1 THEN [res |-> NoneContinue, window |-> w, last_repeat |-> last_repeat]
    ELSE
    LET w1 == IF empty(w) THEN extend(w, fetched) ELSE w
        h == latest_n(w1, context_length).history
        cc == clear_context(h, myself)
        res ==
            IF Len(h) < repeat_count THEN NoneContinue
            ELSE IF cc = <<>> THEN Raises   \* max() of an empty sequence: ValueError
            ELSE IF Cardinality(max_repeat(cc)) < repeat_count THEN NoneContinue
            ELSE IF Len(echo_record(h, myself).text) > max_length THEN NoneContinue
            ELSE Returned(FALSE, <<echo_record(h, myself).text>>, FALSE)
    IN  [res |-> res,
         window |-> w1,
         last_repeat |-> IF ~res.raised /\ ~res.none
                         THEN DictSet(last_repeat, roomid, res.resp[1])
                         ELSE last_repeat]

(***************************************************************************)
(* plugin.py: ChatPlugin.                                                  *)
(***************************************************************************)
max_ignore_arg == 2
frequency == 2

\* Mutant: max_ignore has no upper limit.
clamp_lower_only(m) == IF m < 0 THEN 0 ELSE m

\* ChatPlugin.__init__: max_ignore is clamped to 0..50.
clamp_max_ignore(m) == IF m < 0 THEN 0 ELSE IF m > 50 THEN 50 ELSE m
max_ignore == clamp_max_ignore(max_ignore_arg)

\* What the awaited self.ai.chat(...) does: it raises, or returns None or a
\* list of lines.
AiRaises == [raised |-> TRUE, none |-> TRUE, lines |-> <<>>]
AiNone == [raised |-> FALSE, none |-> TRUE, lines |-> <<>>]
AiLines(lines) == [raised |-> FALSE, none |-> FALSE, lines |-> lines]

\* str.lstrip(chars): leading characters that occur in chars are dropped.
RECURSIVE lstrip(_, _)
lstrip(x, chars) ==
    IF x # <<>> /\ x[1] \in {chars[i] : i \in 1..Len(chars)}
    THEN lstrip(Tail(x), chars)
    ELSE x

\* Mutant: the gate suppresses only when both tests hold.
ignore_message_and(t, last_reply_time, ignored) ==
    t - last_reply_time < frequency /\ ignored < max_ignore

\* Mutant: the gate looks at the elapsed time alone.
ignore_message_time(t, last_reply_time, ignored) ==
    t - last_reply_time < frequency

\* The rate limit's test on a conversation that has a last_check_time entry.
ignore_message(t, last_reply_time, ignored) ==
    t - last_reply_time < frequency \/ ignored < max_ignore

\* Mutant: a suppressed message is not counted.
after_ignore_same(last_reply_time, ignored) == <<last_reply_time, ignored>>

\* self.last_check_time[msg.roomid] = last_reply_time, ignored + 1
after_ignore(last_reply_time, ignored) == <<last_reply_time, ignored + 1>>

\* self.last_check_time[msg.roomid] = now, 0
after_invoke(t) == <<t, 0>>

\* Mutant: only None counts as no response.
not_response_none(ai) == ai.none

\* `if not response`: None and the empty list.
not_response(ai) == ai.none \/ ai.lines = <<>>

\* ChatPlugin.handle(msg, history=w, self_name=myself) at time t, with `ai`
\* what the backend call does if it is reached.  Gives the result, the window,
\* last_check_time and whether the backend was called.
ChatPlugin_handle(type, roomid, t, w, fetched, myself, ai, last_check_time) ==
    IF type # 1
    THEN [res |-> NoneContinue, window |-> w, last_check_time |-> last_check_time,
          invoked |-> FALSE]
    ELSE IF /\ roomid \in DOMAIN last_check_time
            /\ ignore_message(t, last_check_time[roomid][1], last_check_time[roomid][2])
    THEN [res |-> NoneContinue, window |-> w,
          last_check_time |-> DictSet(last_check_time, roomid,
                                      after_ignore(last_check_time[roomid][1], last_check_time[roomid][2])),
          invoked |-> FALSE]
    ELSE
    LET w1 == IF empty(w) THEN extend(w, fetched) ELSE w
        prefix == myself \o <<":">>
        res == IF ai.raised THEN Raises
               ELSE IF not_response(ai) THEN NoneStop
               ELSE Returned(FALSE, [i \in 1..Len(ai.lines) |-> lstrip(ai.lines[i], prefix)], TRUE)
    IN  [res |-> res, window |-> w1,
         last_check_time |-> DictSet(last_check_time, roomid, after_invoke(t)),
         invoked |-> TRUE]

(***************************************************************************)
(* ai.py: what chat does with the text the model produced.                 *)
(***************************************************************************)
\* '本轮不发言'
SentinelPhrase == <<"u672C", "u8F6E", "u4E0D", "u53D1", "u8A00">>
RIGHT_THINK_BRACE == <<"<", "/", "t", "h", "i", "n", "k", ">">>
\* The characters str.strip() and str.split() take for whitespace.
Whitespace == {" ", "\n", "\t", "\r"}

\* str.find(pat): the 0-based index of the first occurrence, -1 if none.
find(x, pat) ==
    LET hits == {i \in 1..(Len(x) - Len(pat) + 1) : SubSeq(x, i, i + Len(pat) - 1) = pat}
    IN  IF hits = {} THEN -1 ELSE SetMin(hits) - 1

\* AiProvider.silent: '本轮不发言' in s
silent(x) == find(x, SentinelPhrase) >= 0

\* str.strip()
RECURSIVE rstrip_ws(_)
rstrip_ws(x) ==
    IF x # <<>> /\ x[Len(x)] \in Whitespace THEN rstrip_ws(SubSeq(x, 1, Len(x) - 1)) ELSE x
RECURSIVE lstrip_ws(_)
lstrip_ws(x) == IF x # <<>> /\ x[1] \in Whitespace THEN lstrip_ws(Tail(x)) ELSE x
strip(x) == lstrip_ws(rstrip_ws(x))

\* str.split(sep) for the one-character separators in seps: the pieces
\* between separators, empty pieces included.
RECURSIVE SplitAt(_, _)
SplitAt(x, seps) ==
    LET cuts == {i \in 1..Len(x) : x[i] \in seps}
    IN  IF cuts = {} THEN <<x>>
        ELSE <<SubSeq(x, 1, SetMin(cuts) - 1)>> \o SplitAt(SubSeq(x, SetMin(cuts) + 1, Len(x)), seps)

\* str.split('\n')
split_newline(x) == SplitAt(x, {"\n"})
\* str.split(): cut at runs of whitespace, no empty pieces.
split_whitespace(x) == SelectSeq(SplitAt(x, Whitespace), LAMBDA y : y # <<>>)

\* [x.strip() for x in pieces if x.strip()]
stripped_nonempty(pieces) ==
    LET kept == SelectSeq(pieces, LAMBDA y : strip(y) # <<>>)
    IN  [i \in 1..Len(kept) |-> strip(kept[i])]

\* What chat returns: None or a list of lines; rest is response_text as the
\* sentinel test reads it.
ChatNone(rest) == [none |-> TRUE, lines |-> <<>>, rest |-> rest]
ChatLines(lines, rest) == [none |-> FALSE, lines |-> lines, rest |-> rest]

\* OpenAI.chat from the response on (Deepseek and ChatGLM inherit it).
OpenAI_chat(response_text) ==
    IF silent(response_text) THEN ChatNone(response_text)
    ELSE ChatLines(stripped_nonempty(split_newline(response_text)), response_text)

\* Ollama.chat from the response on.  find gives -1 without the marker, so
\* right_brace is 8 then and the cut is made all the same.
Ollama_chat(response_text) ==
    LET right_brace == find(response_text, RIGHT_THINK_BRACE) + Len(RIGHT_THINK_BRACE) + 1
        text == IF right_brace > 0 THEN PySliceFrom(response_text, right_brace) ELSE response_text
    IN  IF silent(text) THEN ChatNone(text)
        ELSE ChatLines(stripped_nonempty(split_whitespace(text)), text)

(***************************************************************************)
(* plugin.py: EndProcessing.                                               *)
(***************************************************************************)
EndProcessing_handle == NoneStop

(***************************************************************************)
(* context.py: ContextManager.                                             *)
(***************************************************************************)
\* ContextManager.get_context: the window is created on first access.
get_context(ctx, key) ==
    IF key \in DOMAIN ctx THEN ctx ELSE DictSet(ctx, key, ChatWindow(<<>>, max_history))

\* Mutant: the record is stored twice.
push_message_twice(ctx, contact, sender, text, t) ==
    LET c == get_context(ctx, contact)
    IN  DictSet(c, contact, append(append(c[contact], sender, text, t), sender, text, t))

\* Mutant: the windows share one list, the record goes into every window.
push_message_shared(ctx, contact, sender, text, t) ==
    LET c == get_context(ctx, contact)
    IN  [k \in DOMAIN c |-> append(c[k], sender, text, t)]

\* Mutant: the record is not stored.
push_message_lost(ctx, contact, sender, text, t) == get_context(ctx, contact)

\* ContextManager.push_message
push_message(ctx, contact, sender, text, t) ==
    LET c == get_context(ctx, contact)
    IN  DictSet(c, contact, append(c[contact], sender, text, t))

(***************************************************************************)
(* main.py: the helper's configuration as main() sets it.                  *)
(***************************************************************************)
\* Wechat.all_contacts: wxid -> nickname.
all_contacts == [x \in {"rB", "u1"} |-> IF x = "rB" THEN "G" ELSE "Ann"]
\* name = lambda x: self.all_contacts.get(x, x)
name(x) == IF x \in DOMAIN all_contacts THEN all_contacts[x] ELSE x

\* set_default_plugin([repeater, chat_plugin])
default_plugins == <<"RepeatPlugin", "ChatPlugin">>
\* attach_plugin(<group>, [EndProcessingPlugin()])
plugin_mappings == [c \in {"G"} |-> <<"EndProcessing">>]

\* Mutant: the override list is looked up by the conversation id, not its name.
plugins_by_roomid(roomid) ==
    IF roomid \in DOMAIN plugin_mappings THEN plugin_mappings[roomid] ELSE default_plugins

\* self._plugin_mappings.get(source, self._default_plugins), source = name(roomid)
plugins_for(roomid) ==
    IF name(roomid) \in DOMAIN plugin_mappings
    THEN plugin_mappings[name(roomid)]
    ELSE default_plugins

\* Wechat.dry_run
dry_run == FALSE

(***************************************************************************)
(* Values of the variables a behaviour does not use.                       *)
(***************************************************************************)
NoCall == [called |-> FALSE, type |-> 0, seen |-> <<>>, res |-> NoneContinue]
NoChat ==
    [called |-> FALSE, type |-> 0, room |-> "", now |-> 0, had_state |-> FALSE,
     prior |-> <<0, 0>>, invoked |-> FALSE, ai |-> AiNone, res |-> NoneContinue]
NoMsg == [roomid |-> "", sender |-> "", type |-> 0, content |-> <<>>, is_self |-> FALSE, ts |-> 0]
WindowIdle == cap = 0 /\ win = ChatWindow(<<>>, 0) /\ appended = <<>>
RepeatIdle == rp_last = <<>> /\ rp_res = NoCall /\ rp_prev = NoCall
ChatIdle == cp_state = <<>> /\ cp_res = NoChat /\ cp_log = <<>>
DispatchIdle ==
    /\ contexts = <<>> /\ inflight = NoMsg /\ pc = "idle" /\ idx = 0
    /\ response_back = <<>> /\ trace = <<>> /\ outcome = "none"
    /\ delivered = 0
NoOp == [op |-> "none", before |-> <<>>, other |-> <<>>, n |-> 0, oversized |-> FALSE]
NoAi == [backend |-> "", raw |-> <<>>]
NoOut == [done |-> FALSE, raised |-> FALSE, none |-> TRUE, lines |-> <<>>, rest |-> <<>>]
NoClean == [done |-> FALSE, text |-> <<>>]
GhostIdle == prev_outcome = "none" /\ snap = <<>>
CleanIdle == cl_text = <<>> /\ cl_res = NoClean
NoPlugin == [done |-> FALSE, max_ignore |-> 0, ignored |-> 0, budget_at |-> -1]
ClampIdle == mi_arg = 0 /\ mi_res = NoPlugin
NoStop == [called |-> FALSE, pc |-> "idle", delivered |-> 0, arrived |-> 0]
StopIdle ==
    /\ receiving = FALSE /\ daemon_running = FALSE /\ thread = "none"
    /\ stop_pc = "none" /\ stopped_at = NoStop
    /\ checked_for = 0 /\ arrived = 0
LateIdle == ClampIdle /\ StopIdle
ExtraIdle == w_op = NoOp /\ ai_in = NoAi /\ ai_out = NoOut /\ GhostIdle /\ CleanIdle /\ LateIdle

(***************************************************************************)
(* Append: any sequence of append calls on a window that starts empty.     *)
(***************************************************************************)
AppendRecords == {SingleRecord(s, x, 0) : s \in {"u1", SelfName}, x \in {<<"a">>, <<"b">>}}

InitAppend ==
    /\ mode = "append"
    /\ cap \in 1..MaxCap
    /\ win = ChatWindow(<<>>, cap)
    /\ appended = <<>>
    /\ now = 0
    /\ RepeatIdle /\ ChatIdle /\ DispatchIdle
    /\ ExtraIdle

DoAppend ==
    /\ Len(appended) < MaxAppends
    /\ \E r \in AppendRecords :
        /\ win' = append(win, r.sender, r.text, r.t)
        /\ appended' = Append(appended, r)
    /\ UNCHANGED <<mode, extraVars, cap, repeatVars, chatVars, now, dispatchVars>>

NextAppend == DoAppend
SpecAppend == InitAppend /\ [][NextAppend]_vars

\* C1: after every append on a window of capacity cap that started empty, the
\* window holds at most cap records, and they are the min(k, cap) most
\* recently appended records in append order.
C1_AppendKeepsLatest ==
    mode = "append" =>
        /\ Len(win.history) <= cap
        /\ Len(win.history) = Min(Len(appended), cap)
        /\ win.history = SubSeq(appended, Len(appended) - Min(Len(appended), cap) + 1, Len(appended))

\* An append has evicted: more records were appended than the window holds.
C1_Witness ==
    /\ mode = "append"
    /\ Len(appended) > cap + 1
    /\ Len(win.history) = cap
    /\ win.history[1] # appended[1]

(***************************************************************************)
(* Window: any sequence of append, sort and extend calls on a window that  *)
(* starts empty.  The window given to extend has the default max_history,  *)
(* so it may hold more records than the window under test.                 *)
(***************************************************************************)
WindowRecords == {SingleRecord("u1", <<x>>, t) : x \in {"a", "b"}, t \in {0, 1}}
OtherRecords == <<SingleRecord("u2", <<"c">>, 1), SingleRecord("u2", <<"d">>, 0)>>
\* The windows given to extend: 0 .. cap + 1 records.
OtherWindows(maxh) ==
    {ChatWindow([i \in 1..n |-> OtherRecords[((i + k) % 2) + 1]], max_history) :
        n \in 0..(maxh + 1), k \in {0, 1}}

InitWindow ==
    /\ mode = "window"
    /\ cap \in 1..MaxCap
    /\ win = ChatWindow(<<>>, cap)
    /\ appended = <<>>
    /\ w_op = NoOp
    /\ ai_in = NoAi /\ ai_out = NoOut
    /\ GhostIdle /\ LateIdle /\ CleanIdle
    /\ now = 0
    /\ RepeatIdle /\ ChatIdle /\ DispatchIdle

WindowAppend ==
    /\ \E r \in WindowRecords :
        /\ win' = append(win, r.sender, r.text, r.t)
        /\ w_op' = [op |-> "append", before |-> win.history, other |-> <<r>>, n |-> 0,
                    oversized |-> w_op.oversized]
    /\ UNCHANGED <<mode, cap, appended, ai_in, ai_out, ghostVars, lateVars, cleanVars, repeatVars, chatVars, now, dispatchVars>>

WindowSort ==
    /\ win' = sort(win)
    /\ w_op' = [op |-> "sort", before |-> win.history, other |-> <<>>, n |-> 0,
                oversized |-> w_op.oversized]
    /\ UNCHANGED <<mode, cap, appended, ai_in, ai_out, ghostVars, lateVars, cleanVars, repeatVars, chatVars, now, dispatchVars>>

WindowExtend ==
    /\ \E other \in OtherWindows(cap) :
        /\ win' = extend(win, other)
        /\ w_op' = [op |-> "extend", before |-> win.history, other |-> other.history, n |-> 0,
                    oversized |-> w_op.oversized \/ Len(other.history) > cap]
    /\ UNCHANGED <<mode, cap, appended, ai_in, ai_out, ghostVars, lateVars, cleanVars, repeatVars, chatVars, now, dispatchVars>>

\* latest_n(n) is called on the window; the window it returns is kept in w_op.
WindowLatest ==
    /\ \E n \in 0..(MaxCap + 1) :
        w_op' = [op |-> "latest_n", before |-> win.history, other |-> latest_n(win, n).history,
                 n |-> n, oversized |-> w_op.oversized]
    /\ UNCHANGED <<mode, cap, win, appended, ai_in, ai_out, ghostVars, lateVars, cleanVars, repeatVars, chatVars, now, dispatchVars>>

NextWindow == WindowAppend \/ WindowSort \/ WindowExtend \/ WindowLatest
SpecWindow == InitWindow /\ [][NextWindow]_vars

\* C11 as claimed: after extend(other) the window is the records kept from
\* the old window followed by all of other in other's order; the kept records
\* are the old window without some records at its front, none dropped when
\* both fit, and no more dropped than needed to make room.
C11_ExtendKeepsOther ==
    (mode = "window" /\ w_op.op = "extend") =>
        LET old == w_op.before
            other == w_op.other
            need == Max(0, Min(Len(old), Len(old) + Len(other) - cap))
        IN  win.history = SubSeq(old, need + 1, Len(old)) \o other

\* C12: on a window that was only given windows of at most max_history
\* records, the length never exceeds max_history.
C12_LengthBounded ==
    (mode = "window" /\ ~w_op.oversized) => Len(win.history) <= cap

\* An extend whose two windows together exceed max_history, on a full window.
C12_Witness ==
    /\ mode = "window" /\ ~w_op.oversized
    /\ w_op.op = "extend"
    /\ Len(w_op.before) = cap
    /\ Len(w_op.other) > 0 /\ Len(w_op.other) <= cap

\* C28 as claimed: latest_n(n), n >= 0, gives the min(n, length) most recent
\* records of the window in their order, and the window is as it was.
C28_LatestN ==
    (mode = "window" /\ w_op.op = "latest_n") =>
        LET k == Min(w_op.n, Len(w_op.before))
        IN  /\ w_op.other = SubSeq(w_op.before, Len(w_op.before) - k + 1, Len(w_op.before))
            /\ win.history = w_op.before

(***************************************************************************)
(* Clean: SingleRecord.clean applied to a text of at most MaxTokens pieces. *)
(***************************************************************************)
CleanTokens ==
    {<<"a">>, <<"!">>, <<"u3002">>, <<"[", "D", "o", "g", "e", "]">>, <<"[", "O", "K", "]">>}
RECURSIVE CleanTexts(_)
CleanTexts(n) ==
    IF n = 0 THEN {<<>>}
    ELSE CleanTexts(n - 1) \cup {x \o c : x \in CleanTexts(n - 1), c \in CleanTokens}

InitClean ==
    /\ mode = "clean"
    /\ cl_text \in CleanTexts(MaxTokens)
    /\ cl_res = NoClean
    /\ w_op = NoOp /\ ai_in = NoAi /\ ai_out = NoOut /\ GhostIdle /\ LateIdle
    /\ now = 0
    /\ WindowIdle /\ RepeatIdle /\ ChatIdle /\ DispatchIdle

DoClean ==
    /\ ~cl_res.done
    /\ cl_res' = [done |-> TRUE, text |-> clean(cl_text)]
    /\ UNCHANGED <<mode, cl_text, w_op, ai_in, ai_out, ghostVars, lateVars, windowVars, repeatVars, chatVars, now, dispatchVars>>

NextClean == DoClean
SpecClean == InitClean /\ [][NextClean]_vars

\* A sticker token at position i: "[", two to nine letters, "]".
StickerLen(text, i) ==
    LET lens == {k \in 2..9 :
                    /\ i + k + 1 <= Len(text)
                    /\ text[i] = "["
                    /\ \A j \in 1..k : text[i + j] \in Letters
                    /\ text[i + k + 1] = "]"}
    IN  IF lens = {} THEN 0 ELSE SetMin(lens)

RECURSIVE WithoutStickers(_, _)
WithoutStickers(text, i) ==
    IF i > Len(text) THEN <<>>
    ELSE IF StickerLen(text, i) > 0 THEN WithoutStickers(text, i + StickerLen(text, i) + 2)
    ELSE <<text[i]>> \o WithoutStickers(text, i + 1)

\* C29 as claimed: clean gives the text without its sticker tokens (brackets
\* and letters) and without the punctuation characters.
C29_Normalize ==
    (mode = "clean" /\ cl_res.done) =>
        cl_res.text = RemoveChars(RemoveChars(WithoutStickers(cl_text, 1), CJKPunct), AsciiPunct)

(***************************************************************************)
(* Repeat: RepeatPlugin.handle called on the windows of one conversation.  *)
(***************************************************************************)
RepeatTexts == {<<"a">>, <<"a", "!">>, <<"!">>, <<"b", "b", "b">>}
RepeatRoom == "rA"
FetchedWindows ==
    {ChatWindow(<<>>, max_history),
     ChatWindow(<<SingleRecord("u1", <<"a">>, 0), SingleRecord("u1", <<"a">>, 0)>>, max_history)}

InitRepeat ==
    /\ mode = "repeat"
    /\ cap = max_history
    /\ win = ChatWindow(<<>>, max_history)
    /\ appended = <<>>
    /\ rp_last = <<>> /\ rp_res = NoCall /\ rp_prev = NoCall
    /\ now = 0
    /\ ChatIdle /\ DispatchIdle
    /\ ExtraIdle

\* A message of the conversation is stored.
RepeatAdd ==
    /\ Len(win.history) < MaxWin
    /\ \E s \in {"u1", SelfName}, x \in RepeatTexts : win' = append(win, s, x, 0)
    /\ rp_res' = NoCall
    /\ rp_prev' = NoCall
    /\ UNCHANGED <<mode, extraVars, cap, appended, rp_last, chatVars, now, dispatchVars>>

\* One call of RepeatPlugin.handle.
RepeatHandle ==
    \E type \in {1, 3}, fetched \in FetchedWindows :
        LET r == RepeatPlugin_handle(type, RepeatRoom, win, SelfName, fetched, rp_last)
        IN  /\ win' = r.window
            /\ rp_last' = r.last_repeat
            /\ rp_prev' = rp_res
            /\ rp_res' = [called |-> TRUE, type |-> type,
                          seen |-> latest_n(r.window, context_length).history,
                          res |-> r.res]
            /\ UNCHANGED <<mode, extraVars, cap, appended, chatVars, now, dispatchVars>>

NextRepeat == RepeatAdd \/ RepeatHandle
SpecRepeat == InitRepeat /\ [][NextRepeat]_vars

\* The groups of the echo rule as the design states them: the considered
\* records are those not sent by the bot whose normalized text is not empty,
\* grouped by normalized text.
Considered(h) == {i \in 1..Len(h) : h[i].sender # SelfName /\ clean(h[i].text) # <<>>}
Group(h, x) == {i \in Considered(h) : clean(h[i].text) = x}
GroupTexts(h) == {clean(h[i].text) : i \in Considered(h)}
LargestSize(h) ==
    IF GroupTexts(h) = {} THEN 0 ELSE SetMax({Cardinality(Group(h, x)) : x \in GroupTexts(h)})
\* The largest group, the first encountered among equally large ones.
ModalText(h) ==
    CHOOSE x \in GroupTexts(h) :
        \A y \in GroupTexts(h) :
            \/ Cardinality(Group(h, x)) > Cardinality(Group(h, y))
            \/ /\ Cardinality(Group(h, x)) = Cardinality(Group(h, y))
               /\ SetMin(Group(h, x)) <= SetMin(Group(h, y))
\* The literal text of the modal group's most recent record.
ModalLiteral(h) == h[SetMax(Group(h, ModalText(h)))].text
Echoed(c) == c.called /\ ~c.res.raised /\ ~c.res.none

\* C7: on a text message the echo plugin returns a response exactly when the
\* largest group has at least repeat_count members and the literal text of its
\* most recent record is at most max_length long; an echo is one text with
\* continueChain = false, and every other call returns (None, true).
C7_EchoIff ==
    (mode = "repeat" /\ rp_res.called /\ rp_res.type = 1) =>
        LET h == rp_res.seen
            due == /\ LargestSize(h) >= repeat_count
                   /\ Len(ModalLiteral(h)) <= max_length
        IN  /\ ~rp_res.res.raised
            /\ Echoed(rp_res) <=> due
            /\ Echoed(rp_res) => (Len(rp_res.res.resp) = 1 /\ ~rp_res.res.cont)
            /\ ~Echoed(rp_res) => rp_res.res = NoneContinue

\* C8: an echoed text is the literal text of the most recent record of the
\* modal group, so its normalization is the group's normalized text.
C8_EchoIsModalLiteral ==
    (mode = "repeat" /\ Echoed(rp_res) /\ LargestSize(rp_res.seen) >= repeat_count) =>
        /\ rp_res.res.resp[1] = ModalLiteral(rp_res.seen)
        /\ clean(rp_res.res.resp[1]) = ModalText(rp_res.seen)

\* C9: after an echo of T (last_repeat = T), a second call on the unchanged
\* window returns no response.
C9_NoSecondEcho ==
    (mode = "repeat" /\ Echoed(rp_prev) /\ rp_res.called /\ rp_res.type = 1
        /\ rp_res.seen = rp_prev.seen
        /\ RepeatRoom \in DOMAIN rp_last /\ rp_last[RepeatRoom] = rp_prev.res.resp[1]) =>
        ~Echoed(rp_res)

\* C25 as claimed: when the echo plugin returns a text, some group of records
\* not sent by the bot has at least repeat_count members, and the text is the
\* text of a record of the window that the bot did not send.
C25_BotRecordsExcluded ==
    (mode = "repeat" /\ Echoed(rp_res)) =>
        /\ LargestSize(rp_res.seen) >= repeat_count
        /\ \E i \in 1..Len(rp_res.seen) :
               /\ rp_res.seen[i].sender # SelfName
               /\ rp_res.seen[i].text = rp_res.res.resp[1]

\* C30 as claimed: on a text message whose window has no record left after
\* the bot's records and the records of empty normalized text are set aside,
\* the echo plugin returns (None, true) and does not raise.
C30_NoGroupNoError ==
    (mode = "repeat" /\ rp_res.called /\ rp_res.type = 1 /\ Considered(rp_res.seen) = {}) =>
        /\ ~rp_res.res.raised
        /\ rp_res.res = NoneContinue

(***************************************************************************)
(* Chat: ChatPlugin.handle called on the messages of two conversations.    *)
(***************************************************************************)
ChatRooms == {"rA", "rB"}
AiOutcomes ==
    {AiRaises, AiNone, AiLines(<<>>), AiLines(<<<<"h", "i">>>>),
     AiLines(<<<<"B", "o", "t", ":", "h", "i">>, <<"o", "k">>>>),
     AiLines(<<<<"B", "o", "t", ":", " ", "h", "i">>>>)}
ChatWindowOf == ChatWindow(<<SingleRecord("u1", <<"a">>, 0)>>, max_history)

InitChat ==
    /\ mode = "chat"
    /\ cp_state = <<>>
    /\ cp_res = NoChat
    /\ cp_log = [r \in ChatRooms |-> <<>>]
    /\ now = 0
    /\ WindowIdle /\ RepeatIdle /\ DispatchIdle
    /\ ExtraIdle

\* The clock int(time.time()) reads moves on.
Tick ==
    /\ now < (IF mode = "chat" THEN MaxTime ELSE MaxClock)
    /\ now' = now + 1
    /\ UNCHANGED <<mode, extraVars, windowVars, repeatVars, chatVars, dispatchVars>>

\* One call of ChatPlugin.handle.
ChatHandle ==
    \E type \in {1, 3}, room \in ChatRooms, ai \in AiOutcomes :
        LET r == ChatPlugin_handle(type, room, now, ChatWindowOf, ChatWindowOf,
                                   SelfNameChars, ai, cp_state)
        IN  /\ Len(cp_log[room]) < MaxCalls
            /\ cp_state' = r.last_check_time
            /\ cp_res' = [called |-> TRUE, type |-> type, room |-> room, now |-> now,
                          had_state |-> room \in DOMAIN cp_state,
                          prior |-> IF room \in DOMAIN cp_state THEN cp_state[room] ELSE <<0, 0>>,
                          invoked |-> r.invoked, ai |-> IF r.invoked THEN ai ELSE AiNone,
                          res |-> r.res]
            /\ cp_log' = IF type = 1
                         THEN [cp_log EXCEPT ![room] = Append(@, IF r.invoked THEN "invoke" ELSE "ignore")]
                         ELSE cp_log
            /\ UNCHANGED <<mode, extraVars, windowVars, repeatVars, now, dispatchVars>>

NextChat == Tick \/ ChatHandle
SpecChat == InitChat /\ [][NextChat]_vars

IgnoredBefore(log, k) ==
    LET stops == {j \in 1..(k - 1) : log[j] = "invoke"}
        from == IF stops = {} THEN 0 ELSE SetMax(stops)
    IN  k - 1 - from

WithoutPrefix(line, myself) ==
    LET prefix == myself \o <<":">>
    IN  IF Len(line) >= Len(prefix) /\ SubSeq(line, 1, Len(prefix)) = prefix
        THEN lstrip_ws(SubSeq(line, Len(prefix) + 1, Len(line)))
        ELSE line

\* C16 as claimed: each line of the backend's reply comes back without the
\* prefix "<bot name>:" if it begins with it, and unchanged otherwise.
C16_PrefixRemoved ==
    (mode = "chat" /\ cp_res.called /\ cp_res.invoked /\ ~cp_res.res.raised /\ ~cp_res.res.none) =>
        /\ Len(cp_res.res.resp) = Len(cp_res.ai.lines)
        /\ \A i \in 1..Len(cp_res.res.resp) :
               cp_res.res.resp[i] = WithoutPrefix(cp_res.ai.lines[i], SelfNameChars)

\* C24: after a text message that invoked the backend at time now the
\* conversation's cadence state is (now, 0), whether the backend replied,
\* abstained or raised; after a suppressed one it is (lastInvoke, ignored + 1).
C24_CadenceUpdate ==
    (mode = "chat" /\ cp_res.called /\ cp_res.type = 1) =>
        /\ cp_res.room \in DOMAIN cp_state
        /\ cp_res.invoked => cp_state[cp_res.room] = <<cp_res.now, 0>>
        /\ ~cp_res.invoked =>
               /\ cp_res.had_state
               /\ cp_state[cp_res.room] = <<cp_res.prior[1], cp_res.prior[2] + 1>>

\* The backend raised on an invocation that the gate allowed in a conversation
\* with cadence state.
C24_Witness ==
    /\ mode = "chat" /\ cp_res.called /\ cp_res.type = 1
    /\ cp_res.had_state /\ cp_res.invoked /\ cp_res.ai.raised
    /\ cp_res.now > 0

(***************************************************************************)
(* Ai: chat of one backend applied to the text its model produced.  A raw  *)
(* text is made of at most MaxChunks pieces.                               *)
(***************************************************************************)
Backends == {"OpenAI", "Ollama"}
Chunks == {<<"a">>, <<"b">>, <<" ">>, <<"\n">>, RIGHT_THINK_BRACE, SentinelPhrase}
RECURSIVE RawTexts(_)
RawTexts(n) ==
    IF n = 0 THEN {<<>>}
    ELSE RawTexts(n - 1) \cup {x \o c : x \in RawTexts(n - 1), c \in Chunks}

InitAi ==
    /\ mode = "ai"
    /\ ai_in \in {[backend |-> b, raw |-> x] : b \in Backends, x \in RawTexts(MaxChunks)}
    /\ ai_out = NoOut
    /\ w_op = NoOp
    /\ GhostIdle /\ LateIdle /\ CleanIdle
    /\ now = 0
    /\ WindowIdle /\ RepeatIdle /\ ChatIdle /\ DispatchIdle

\* The awaited request returned ai_in.raw; chat goes on from there.
AiChat ==
    /\ ~ai_out.done
    /\ LET r == IF ai_in.backend = "OpenAI" THEN OpenAI_chat(ai_in.raw) ELSE Ollama_chat(ai_in.raw)
       IN  ai_out' = [done |-> TRUE, raised |-> FALSE, none |-> r.none, lines |-> r.lines,
                      rest |-> r.rest]
    /\ UNCHANGED <<mode, w_op, ai_in, ghostVars, lateVars, cleanVars, windowVars, repeatVars, chatVars, now, dispatchVars>>

NextAi == AiChat
SpecAi == InitAi /\ [][NextAi]_vars

\* Whether x occurs in the text.
Occurs(x, text) == \E i \in 1..Len(text) : i + Len(x) - 1 <= Len(text) /\ SubSeq(text, i, i + Len(x) - 1) = x

\* C13 as claimed: chat returns None exactly when the raw text contains the
\* sentinel phrase, for every backend.
C13_SentinelIffNone ==
    (mode = "ai" /\ ai_out.done) =>
        /\ Occurs(SentinelPhrase, ai_in.raw) => (ai_out.none /\ ai_out.lines = <<>>)
        /\ ~Occurs(SentinelPhrase, ai_in.raw) => ~ai_out.none

\* The raw text without its reasoning trace: behind the first closing marker
\* and the one character after it; the whole text when there is no marker.
AfterTrace(raw) ==
    IF Occurs(RIGHT_THINK_BRACE, raw)
    THEN LET p == SetMin({i \in 1..(Len(raw) - 7) : SubSeq(raw, i, i + 7) = RIGHT_THINK_BRACE})
         IN  SubSeq(raw, p + 9, Len(raw))
    ELSE raw

\* C14 as claimed: the text that goes on to the sentinel test and the line
\* splitting is the raw text without its reasoning trace, and the whole raw
\* text when it holds no closing marker.
C14_TraceStripped ==
    (mode = "ai" /\ ai_out.done) => ai_out.rest = AfterTrace(ai_in.raw)

\* The lines of a text: cut at line breaks only, trimmed, empty lines dropped.
RECURSIVE LinesOf(_)
LinesOf(text) ==
    LET brk == {i \in 1..Len(text) : text[i] = "\n"}
        first == IF brk = {} THEN text ELSE SubSeq(text, 1, SetMin(brk) - 1)
        more == IF brk = {} THEN <<>> ELSE LinesOf(SubSeq(text, SetMin(brk) + 1, Len(text)))
    IN  IF strip(first) = <<>> THEN more ELSE <<strip(first)>> \o more

\* C15 as claimed: the returned list is the list of the lines of the
\* remaining text, whichever backend produced it.
C15_LinesOfRest ==
    (mode = "ai" /\ ai_out.done /\ ~ai_out.none) => ai_out.lines = LinesOf(ai_out.rest)

(***************************************************************************)
(* main.py: WxHelper.on_message, and wechat.py: the receive loop that      *)
(* awaits it for one message at a time.                                    *)
(*                                                                         *)
(* on_message hands the conversation's window to a plugin as the keyword   *)
(* argument `context`, and the plugins read it as `history`: the model     *)
(* gives the plugin the window on_message passes.  After the push the      *)
(* window is never empty, so no plugin fetches history here.               *)
(***************************************************************************)
Rooms == {"rA", "rB"}
EmptyWindow == ChatWindow(<<>>, max_history)
\* What fetch_history gives for a conversation: a window sorted by time.
StoredHistories == {EmptyWindow, ChatWindow(<<SingleRecord("Ann", <<"a">>, 0)>>, max_history)}
\* msg.content of an image message after _parse_image_message.
ImageDescription == <<"i", "m", "g">>
Inbound ==
    {[roomid |-> r, sender |-> "u1", type |-> 1, content |-> x, is_self |-> FALSE, ts |-> 0] :
        r \in Rooms, x \in {<<"a">>, <<"!">>}}
    \cup {[roomid |-> r, sender |-> "me", type |-> 1, content |-> <<"a">>, is_self |-> TRUE, ts |-> 0] :
        r \in Rooms}
    \cup {[roomid |-> r, sender |-> "u1", type |-> ty, content |-> <<>>, is_self |-> FALSE, ts |-> 0] :
        r \in Rooms, ty \in {3, 49, 10000}}

CallEvent(p, plugin, res) == [kind |-> "call", p |-> p, plugin |-> plugin, res |-> res, text |-> <<>>]
SendEvent(kind, p, text) == [kind |-> kind, p |-> p, plugin |-> "", res |-> NoneContinue, text |-> text]

\* Wechat._process_message: the message types handed to the callback.
routed(type) == type \in {1, 3, 49}

\* Mutant: no message is taken for the bot's own.
from_self_never(msg) == FALSE

\* msg.from_self()
from_self(msg) == msg.is_self

\* on_message from its start to the push of the inbound message.  hookOK says
\* whether the image hook of a type 3 message succeeds; a type 49 message
\* reaches the hook with msg.content replaced by the message object
\* (wechat.py:119), on which parse_reference_message raises.
on_message_start(msg, ctx, hookOK, stored) ==
    LET content == IF msg.type = 3 THEN ImageDescription ELSE msg.content
        c1 == get_context(ctx, msg.roomid)
        c2 == IF empty(c1[msg.roomid])
              THEN DictSet(c1, msg.roomid, extend(c1[msg.roomid], stored))
              ELSE c1
    IN  IF msg.type = 49 \/ (msg.type = 3 /\ ~hookOK)
        THEN [outcome |-> "error", contexts |-> ctx, before |-> ctx]
        ELSE IF from_self(msg) THEN [outcome |-> "self", contexts |-> ctx, before |-> ctx]
        ELSE IF msg.type = 47 THEN [outcome |-> "sticker", contexts |-> c2, before |-> c2]
        ELSE [outcome |-> "pushed", before |-> c2,
              contexts |-> push_message(c2, msg.roomid, name(msg.sender), content, msg.ts)]

\* Mutant: the loop goes on after a plugin returned continueChain = false.
after_handle_nobreak(buf, res) ==
    [buf |-> IF res.none THEN buf ELSE buf \o res.resp, brk |-> FALSE]

\* The loop body after plugin.handle returned: `if not _continue: break`
\* comes first, `if current_round: response_back.extend(current_round)` second.
after_handle(buf, res) ==
    IF ~res.cont THEN [buf |-> buf, brk |-> TRUE]
    ELSE [buf |-> IF res.none THEN buf ELSE buf \o res.resp, brk |-> FALSE]

\* Mutant: the reply buffer is walked from its end.
next_text_reversed(buf, k) == buf[Len(buf) - k + 1]

\* for text in response_back: the k-th text.
next_text(buf, k) == buf[k]

InitDispatch ==
    /\ mode = "dispatch"
    /\ contexts = <<>>
    /\ inflight = NoMsg
    /\ pc = "idle"
    /\ idx = 0
    /\ response_back = <<>>
    /\ trace = <<>>
    /\ outcome = "none"
    /\ delivered = 0
    /\ rp_last = <<>> /\ rp_res = NoCall /\ rp_prev = NoCall
    /\ cp_state = <<>> /\ cp_res = NoChat /\ cp_log = <<>>
    /\ now = 0
    /\ WindowIdle
    /\ ExtraIdle

\* Mutant: the loop does not wait for the callback.
not_awaited(p) == TRUE

\* The loop awaits _process_message, which awaits the callback: it comes back
\* to get_msg only when on_message has returned or raised.
awaited(p) == p = "idle"

\* Mutant: the loop ends when the handling of a message has raised.
loop_ends_on_error(o) == o # "error"

\* `except Exception as e: logger.error(...)` inside the while loop: whatever
\* way the handling of the last message ended, the loop goes on.
loop_continues(o) == TRUE

\* The loop takes a message from the channel; _process_message routes it and
\* on_message runs up to the plugin loop.
Receive ==
    /\ awaited(pc)
    /\ loop_continues(outcome)
    /\ prev_outcome' = outcome
    /\ delivered < MaxMsgs
    /\ \E m0 \in Inbound, hookOK \in BOOLEAN, stored \in StoredHistories :
        LET msg == [m0 EXCEPT !.ts = now]
            st == on_message_start(msg, contexts, hookOK, stored)
        IN  /\ inflight' = msg
            /\ delivered' = delivered + 1
            /\ response_back' = <<>>
            /\ trace' = <<>>
            /\ IF ~routed(msg.type)
               THEN /\ outcome' = "dropped" /\ pc' = "idle" /\ idx' = 0
                    /\ snap' = contexts
                    /\ UNCHANGED contexts
               ELSE /\ contexts' = st.contexts
                    /\ snap' = st.before
                    /\ IF st.outcome = "pushed"
                       THEN outcome' = "running" /\ pc' = "chain" /\ idx' = 1
                       ELSE outcome' = st.outcome /\ pc' = "idle" /\ idx' = 0
    /\ UNCHANGED <<mode, w_op, ai_in, ai_out, cleanVars, lateVars, windowVars, repeatVars, chatVars, now>>

\* One turn of `for plugin in ...`: await plugin.handle(...), then the loop
\* body; after the last turn, `if not response_back: return`.
PluginStep ==
    /\ pc = "chain"
    /\ LET room == inflight.roomid
           plugins == plugins_for(room)
           plugin == plugins[idx]
       IN  \E ai \in AiOutcomes :
           LET rr == RepeatPlugin_handle(inflight.type, room, contexts[room], SelfName,
                                         EmptyWindow, rp_last)
               cr == ChatPlugin_handle(inflight.type, room, now, contexts[room], EmptyWindow,
                                       SelfNameChars, ai, cp_state)
               res == IF plugin = "RepeatPlugin" THEN rr.res
                      ELSE IF plugin = "ChatPlugin" THEN cr.res
                      ELSE EndProcessing_handle
               nxt == after_handle(response_back, res)
               over == nxt.brk \/ idx = Len(plugins)
           IN  /\ trace' = Append(trace, CallEvent(idx, plugin, res))
               /\ rp_last' = IF plugin = "RepeatPlugin" THEN rr.last_repeat ELSE rp_last
               /\ cp_state' = IF plugin = "ChatPlugin" THEN cr.last_check_time ELSE cp_state
               /\ contexts' = IF plugin = "RepeatPlugin" THEN DictSet(contexts, room, rr.window)
                              ELSE IF plugin = "ChatPlugin" THEN DictSet(contexts, room, cr.window)
                              ELSE contexts
               /\ IF res.raised
                  THEN /\ outcome' = "error" /\ pc' = "idle" /\ idx' = 0
                       /\ UNCHANGED response_back
                  ELSE /\ response_back' = nxt.buf
                       /\ IF ~over THEN pc' = "chain" /\ idx' = idx + 1 /\ UNCHANGED outcome
                          ELSE IF nxt.buf = <<>>
                          THEN pc' = "idle" /\ idx' = 0 /\ outcome' = "no_response"
                          ELSE pc' = "send" /\ idx' = 1 /\ UNCHANGED outcome
    /\ UNCHANGED <<mode, extraVars, windowVars, rp_res, rp_prev, cp_res, cp_log, now, inflight, delivered>>

\* One turn of `for text in response_back`: the send, then the push of the
\* sent text under the bot's name; a send that raises ends on_message.
SendStep ==
    /\ pc = "send"
    /\ LET room == inflight.roomid
           text == next_text(response_back, idx)
       IN  \E ok \in BOOLEAN :
           IF ok
           THEN /\ trace' = IF dry_run THEN trace ELSE Append(trace, SendEvent("send", idx, text))
                /\ contexts' = push_message(contexts, room, SelfName, text, now)
                /\ IF idx = Len(response_back)
                   THEN pc' = "idle" /\ idx' = 0 /\ outcome' = "replied"
                   ELSE pc' = "send" /\ idx' = idx + 1 /\ UNCHANGED outcome
           ELSE /\ ~dry_run
                /\ trace' = Append(trace, SendEvent("sendfail", idx, text))
                /\ pc' = "idle" /\ idx' = 0 /\ outcome' = "error"
                /\ UNCHANGED contexts
    /\ UNCHANGED <<mode, extraVars, windowVars, repeatVars, chatVars, now, inflight, response_back, delivered>>

Next == Receive \/ PluginStep \/ SendStep \/ Tick
Spec == InitDispatch /\ [][Next]_vars

\* The handle calls of the running dispatch and the texts it has sent.
Calls == SelectSeq(trace, LAMBDA e : e.kind = "call")
SentTexts == LET ev == SelectSeq(trace, LAMBDA e : e.kind = "send")
             IN  [i \in 1..Len(ev) |-> ev[i].text]
\* The plugin list of a conversation as configured: the override list of the
\* conversation's name if there is one, else the default list.
Resolved(roomid) ==
    IF name(roomid) \in {"G"} THEN <<"EndProcessing">> ELSE <<"RepeatPlugin", "ChatPlugin">>
Finished == pc = "idle" /\ outcome \in {"replied", "no_response"}

\* C2 as claimed: the texts a plugin returns together with continueChain =
\* false are put into the reply buffer and sent by the dispatch.
C2_StopperTextsSent ==
    (mode = "dispatch" /\ Finished) =>
        \A k \in 1..Len(Calls) :
            (~Calls[k].res.none /\ ~Calls[k].res.cont) =>
                \A i \in 1..Len(Calls[k].res.resp) :
                    /\ \E j \in 1..Len(response_back) : response_back[j] = Calls[k].res.resp[i]
                    /\ \E j \in 1..Len(SentTexts) : SentTexts[j] = Calls[k].res.resp[i]

\* C3: the plugins of the resolved list are called in configured order, each
\* at most once, none after the first that returned continueChain = false,
\* and with an override list no plugin of the default list is called.
C3_ChainOrder ==
    mode = "dispatch" =>
        LET plugins == Resolved(inflight.roomid)
        IN  /\ Len(Calls) <= Len(plugins)
            /\ \A k \in 1..Len(Calls) : Calls[k].p = k /\ Calls[k].plugin = plugins[k]
            /\ \A k \in 1..(Len(Calls) - 1) : ~Calls[k].res.raised /\ Calls[k].res.cont
            /\ name(inflight.roomid) = "G" =>
                   \A k \in 1..Len(Calls) : Calls[k].plugin \notin {"RepeatPlugin", "ChatPlugin"}

\* A dispatch of the default chain ended by the first plugin's
\* continueChain = false, the second plugin not called.
C3_Witness ==
    /\ mode = "dispatch" /\ pc = "idle" /\ outcome = "no_response"
    /\ Len(Resolved(inflight.roomid)) = 2
    /\ Len(Calls) = 1 /\ ~Calls[1].res.cont

\* C4 as claimed: after a plugin's handle raised, the later plugins of the
\* chain are still called in the same dispatch, which ends normally.
C4_LaterPluginsStillRun ==
    (mode = "dispatch" /\ pc = "idle") =>
        \A k \in 1..Len(Calls) :
            Calls[k].res.raised =>
                /\ outcome # "error"
                /\ k < Len(Resolved(inflight.roomid)) => Len(Calls) > k

\* C10: the texts of the reply buffer are sent in the buffer's order, no send
\* comes before the plugin chain has finished, each sent text is pushed into
\* the conversation's window under the bot's name, so the window ends with
\* the sent texts in send order; a dispatch that ends after its last send has
\* sent the whole buffer.
C10_SendsInOrder ==
    mode = "dispatch" =>
        LET room == inflight.roomid
            n == Len(SentTexts)
        IN  /\ n <= Len(response_back)
            /\ \A i \in 1..n : SentTexts[i] = response_back[i]
            /\ \A i \in 1..Len(trace) : \A j \in (i + 1)..Len(trace) :
                   trace[i].kind # "call" => trace[j].kind # "call"
            /\ n > 0 =>
                   \/ Len(Calls) = Len(Resolved(room))
                   \/ ~Calls[Len(Calls)].res.cont
            /\ (pc = "idle" /\ outcome = "replied") => SentTexts = response_back
            /\ n > 0 =>
                   LET h == contexts[room].history
                   IN  /\ Len(h) >= n
                       /\ \A i \in 1..n :
                              /\ h[Len(h) - n + i].sender = SelfName
                              /\ h[Len(h) - n + i].text = SentTexts[i]

\* A dispatch that sent a reply buffer of two different texts.
C10_Witness ==
    /\ mode = "dispatch" /\ pc = "idle" /\ outcome = "replied"
    /\ Len(response_back) = 2 /\ response_back[1] # response_back[2]
    /\ SentTexts = response_back


\* C17 as claimed: a failing backend call makes ChatPlugin.handle return
\* (None, true), so no call of ChatPlugin raises and a dispatch ends with an
\* error only when a send failed.
C17_BackendErrorContinues ==
    mode = "dispatch" =>
        /\ \A k \in 1..Len(Calls) :
               Calls[k].plugin = "ChatPlugin" => ~Calls[k].res.raised
        /\ (pc = "idle" /\ outcome = "error" /\ Len(Calls) > 0) =>
               \E i \in 1..Len(trace) : trace[i].kind = "sendfail"


C19_OneDispatchAtATime ==
    [][ /\ delivered' # delivered => pc = "idle"
        /\ pc # "idle" => inflight' = inflight
        /\ (trace' # trace /\ pc # "idle") => SubSeq(trace', 1, Len(trace)) = trace ]_vars

\* The second dispatch of a conversation runs its chain after the first one
\* has sent its reply.
C19_Witness ==
    /\ mode = "dispatch" /\ delivered = 2 /\ pc = "chain"
    /\ \E i \in 1..Len(contexts[inflight.roomid].history) :
           contexts[inflight.roomid].history[i].sender = SelfName

\* C20 as claimed: while a dispatch is at its plugin chain or at its sends and
\* the channel has a message of another conversation, the reader can take it.
C20_ReaderNeverBlocks ==
    (mode = "dispatch" /\ pc # "idle" /\ delivered < MaxMsgs) =>
        ENABLED (Receive /\ inflight'.roomid # inflight.roomid)


\* C21: however the handling of a message ended, with an error too, the loop
\* is ready for the next message of the channel, and an error ends the turn
\* of that message only.
C21_LoopSurvivesErrors ==
    (mode = "dispatch" /\ pc = "idle" /\ delivered < MaxMsgs) =>
        /\ ENABLED Receive
        /\ outcome = "error" => ENABLED (Receive /\ pc' = "chain")

\* A message is being handled after the handling of the message before it
\* ended with an error.
C21_Witness ==
    /\ mode = "dispatch" /\ prev_outcome = "error" /\ delivered = 2
    /\ pc = "idle" /\ outcome = "replied"

\* C22: the step that takes a message of the bot's own calls no plugin, sends
\* nothing and leaves every window, the cadence state and the repeat state as
\* they were; its dispatch is over with that step.
C22_SelfMessageIgnored ==
    [][ (delivered' # delivered /\ inflight'.is_self) =>
            /\ contexts' = contexts
            /\ cp_state' = cp_state
            /\ rp_last' = rp_last
            /\ trace' = <<>> /\ response_back' = <<>>
            /\ pc' = "idle" ]_vars

\* A message of the bot's own was taken in a conversation that has a window
\* and cadence state.
C22_Witness ==
    /\ mode = "dispatch" /\ delivered = 2 /\ inflight.is_self /\ outcome = "self"
    /\ inflight.roomid \in DOMAIN contexts
    /\ inflight.roomid \in DOMAIN cp_state


\* The records of a conversation's window in a _contexts value.
HistoryIn(ctx, room) == IF room \in DOMAIN ctx THEN ctx[room].history ELSE <<>>

\* C23 as claimed: a message not sent by the bot, of whatever type, is stored
\* once in its conversation's window behind the records the window had after
\* the backfill; it is the last record when the first plugin is called, and
\* only the bot's replies come behind it.  (An image whose download or
\* description failed is left aside.)
C23_InboundPushedOnce ==
    (mode = "dispatch" /\ delivered > 0 /\ ~inflight.is_self
        /\ ~(inflight.type = 3 /\ outcome = "error" /\ trace = <<>>)) =>
        LET h == HistoryIn(contexts, inflight.roomid)
            b == HistoryIn(snap, inflight.roomid)
        IN  /\ Len(h) >= Len(b) + 1
            /\ SubSeq(h, 1, Len(b)) = b
            /\ h[Len(b) + 1].sender = name(inflight.sender) /\ h[Len(b) + 1].t = inflight.ts
            /\ (pc = "chain" /\ trace = <<>>) => Len(h) = Len(b) + 1
            /\ \A i \in (Len(b) + 2)..Len(h) : h[i].sender = SelfName

\* C26: a step of the dispatch of a message of conversation A leaves the
\* window, the cadence state and the repeat state of every other conversation
\* as they were, and a window only ever grows at its end.
StateOf(f, room) == IF room \in DOMAIN f THEN <<f[room]>> ELSE <<>>
C27_EmptyBufferNoEffect ==
    (mode = "dispatch" /\ pc = "idle" /\ outcome = "no_response") =>
        LET room == inflight.roomid
            h == HistoryIn(contexts, room)
            b == HistoryIn(snap, room)
        IN  /\ response_back = <<>>
            /\ \A i \in 1..Len(trace) : trace[i].kind = "call"
            /\ Len(h) = Len(b) + 1 /\ SubSeq(h, 1, Len(b)) = b
            /\ h[Len(h)].sender = name(inflight.sender) /\ h[Len(h)].t = inflight.ts
            /\ \A r \in Rooms \ {room} : StateOf(contexts, r) = StateOf(snap, r)

\* Both plugins of the default chain were called on a conversation with
\* earlier records and the reply buffer stayed empty.
C27_Witness ==
    /\ mode = "dispatch" /\ pc = "idle" /\ outcome = "no_response"
    /\ Len(Calls) = 2
    /\ Len(HistoryIn(snap, inflight.roomid)) > 0

\* C33: a call of ChatPlugin.handle that returns gives continueChain = false
\* exactly when the rate limit let the message through and the backend
\* returned None or an empty list; it gives true for a message that is not
\* text, for a suppressed message, and when the backend returned a line.
C33_ContinueChain ==
    (mode = "chat" /\ cp_res.called /\ ~cp_res.res.raised) =>
        /\ (~cp_res.res.cont) <=>
              (cp_res.invoked /\ (cp_res.ai.none \/ cp_res.ai.lines = <<>>))
        /\ (cp_res.type # 1) => cp_res.res.cont
        /\ (cp_res.type = 1 /\ ~cp_res.invoked) => cp_res.res.cont
        /\ (cp_res.invoked /\ ~cp_res.ai.none /\ Len(cp_res.ai.lines) >= 1) => cp_res.res.cont

\* C33 witness: the rate limit let a text message of a conversation with a
\* cadence state through, the backend returned an empty list, and handle
\* returned (None, False).
C33_Witness ==
    /\ mode = "chat" /\ cp_res.called /\ cp_res.type = 1 /\ cp_res.had_state
    /\ cp_res.invoked /\ ~cp_res.ai.none /\ cp_res.ai.lines = <<>>
    /\ ~cp_res.res.raised /\ cp_res.res.none /\ ~cp_res.res.cont

\* ---------------------------------------------------------------------------
\* ChatPlugin.__init__ for every max_ignore argument, and the rate limit's
\* count of suppressed messages in one conversation of the plugin it builds.
MaxArg == 3
MaxSuppressed == 52
MaxIgnoreArgs == (0 - MaxArg)..(50 + MaxArg)

\* `ignored < self.max_ignore`, the second test of the rate limit.
budget_left(ignored, mi) == ignored < mi

InitClamp ==
    /\ mode = "clamp"
    /\ mi_arg \in MaxIgnoreArgs
    /\ mi_res = NoPlugin
    /\ WindowIdle /\ RepeatIdle /\ ChatIdle /\ DispatchIdle /\ now = 0
    /\ w_op = NoOp /\ ai_in = NoAi /\ ai_out = NoOut /\ GhostIdle /\ CleanIdle /\ StopIdle

\* ChatPlugin(ai_provider, max_ignore=mi_arg); the conversation's first text
\* message is answered and leaves last_check_time[roomid] = (now, 0).
Construct ==
    /\ ~mi_res.done
    /\ mi_res' = [NoPlugin EXCEPT !.done = TRUE, !.max_ignore = clamp_max_ignore(mi_arg)]
    /\ UNCHANGED <<mode, mi_arg, w_op, ai_in, ai_out, ghostVars, cleanVars, stopVars, windowVars,
                   repeatVars, chatVars, now, dispatchVars>>

\* A later text message of the conversation, `recent` telling whether it
\* comes less than frequency seconds after the last reply: it is suppressed
\* and counted, or the backend is called and the count starts again.
GateMessage ==
    /\ mi_res.done
    /\ mi_res.ignored < MaxSuppressed
    /\ \E recent \in BOOLEAN :
        LET left == budget_left(mi_res.ignored, mi_res.max_ignore)
        IN  IF recent \/ left
            THEN mi_res' = [mi_res EXCEPT
                                !.ignored = after_ignore(0, mi_res.ignored)[2],
                                !.budget_at = IF left THEN mi_res.ignored ELSE @]
            ELSE mi_res' = [mi_res EXCEPT !.ignored = after_invoke(0)[2]]
    /\ UNCHANGED <<mode, mi_arg, w_op, ai_in, ai_out, ghostVars, cleanVars, stopVars, windowVars,
                   repeatVars, chatVars, now, dispatchVars>>

NextClamp == Construct \/ GateMessage
SpecClamp == InitClamp /\ [][NextClamp]_vars

\* C32: for every integer max_ignore the plugin's limit is
\* max(0, min(50, max_ignore)), and the budget test never holds for a message
\* that comes after 50 or more suppressed ones: budget_at, the greatest count
\* of suppressed messages at which it held, stays below 50.
C32_ClampedBudget ==
    (mode = "clamp" /\ mi_res.done) =>
        /\ mi_res.max_ignore = Max(0, Min(50, mi_arg))
        /\ mi_res.budget_at < 50
        /\ (mi_res.ignored >= 50 => ~budget_left(mi_res.ignored, mi_res.max_ignore))

\* C32 witness: an argument above 50, and a conversation in which fifty
\* messages in a row were suppressed, the last of them on the budget alone.
C32_Witness ==
    /\ mode = "clamp" /\ mi_res.done /\ mi_arg > 50
    /\ mi_res.ignored = 50 /\ mi_res.budget_at = 49

\* ---------------------------------------------------------------------------
\* Shutdown of the receive loop: start_receiving_message, the loop f of the
\* GetMessage thread, and stop_receiving_message called from the handler of
\* SIGINT in the main thread.

\* Mutant: the loop's test never sees that receiving was disabled.
is_receiving_always(r) == TRUE

\* `while wcf.is_receiving_msg()`: the flag that enable_receiving_msg sets and
\* disable_recv_msg clears.
is_receiving_msg(r) == r

InitStop ==
    /\ mode = "stop"
    /\ contexts = <<>>
    /\ inflight = NoMsg
    /\ pc = "idle"
    /\ idx = 0
    /\ response_back = <<>>
    /\ trace = <<>>
    /\ outcome = "none"
    /\ delivered = 0
    /\ rp_last = <<>> /\ rp_res = NoCall /\ rp_prev = NoCall
    /\ cp_state = <<>> /\ cp_res = NoChat /\ cp_log = <<>>
    /\ now = 0
    /\ WindowIdle
    /\ ExtraIdle

\* start_receiving_message: enable_receiving_msg, the flag, the thread. After
\* the handler of SIGINT the process exits, so it is not called then.
StartReceiving ==
    /\ thread = "none" /\ stop_pc = "none"
    /\ receiving' = TRUE
    /\ daemon_running' = TRUE
    /\ thread' = "running"
    /\ UNCHANGED <<mode, w_op, ai_in, ai_out, ghostVars, cleanVars, clampVars, stop_pc, stopped_at,
                   checked_for, arrived, windowVars, repeatVars, chatVars, now, dispatchVars>>

\* The transport puts a message on the channel get_msg reads; it does so only
\* while receiving is enabled.
Deliver ==
    /\ receiving
    /\ arrived < MaxMsgs
    /\ arrived' = arrived + 1
    /\ UNCHANGED <<mode, w_op, ai_in, ai_out, ghostVars, cleanVars, clampVars, receiving, daemon_running,
                   thread, stop_pc, stopped_at, checked_for, windowVars, repeatVars, chatVars, now,
                   dispatchVars>>

\* The test of the while loop: on true the loop goes to get_msg, on false it
\* leaves the loop and f ends with `self._daemon_running = False`.
LoopCheck ==
    /\ thread = "running" /\ awaited(pc) /\ checked_for <= delivered
    /\ IF is_receiving_msg(receiving)
       THEN /\ checked_for' = delivered + 1
            /\ UNCHANGED <<daemon_running, thread>>
       ELSE /\ daemon_running' = FALSE
            /\ thread' = "done"
            /\ UNCHANGED checked_for
    /\ UNCHANGED <<mode, w_op, ai_in, ai_out, ghostVars, cleanVars, clampVars, receiving, stop_pc,
                   stopped_at, arrived, windowVars, repeatVars, chatVars, now, dispatchVars>>

\* get_msg finds the channel empty: `except Empty: continue`.
LoopEmpty ==
    /\ thread = "running" /\ awaited(pc) /\ checked_for = delivered + 1
    /\ arrived = delivered
    /\ checked_for' = delivered
    /\ UNCHANGED <<mode, w_op, ai_in, ai_out, ghostVars, cleanVars, clampVars, receiving, daemon_running,
                   thread, stop_pc, stopped_at, arrived, windowVars, repeatVars, chatVars, now,
                   dispatchVars>>

\* get_msg returns the next message of the channel and its dispatch starts.
LoopReceive ==
    /\ thread = "running" /\ checked_for = delivered + 1
    /\ delivered < arrived
    /\ Receive

\* stop_receiving_message up to its waiting loop: disable_recv_msg.
StopCall ==
    /\ stop_pc = "none"
    /\ receiving' = FALSE
    /\ stop_pc' = "waiting"
    /\ stopped_at' = [called |-> TRUE, pc |-> pc, delivered |-> delivered, arrived |-> arrived]
    /\ UNCHANGED <<mode, w_op, ai_in, ai_out, ghostVars, cleanVars, clampVars, daemon_running, thread,
                   checked_for, arrived, windowVars, repeatVars, chatVars, now, dispatchVars>>

\* `while self._daemon_running: time.sleep(0.1)` sees the flag false.
StopReturn ==
    /\ stop_pc = "waiting"
    /\ ~daemon_running
    /\ stop_pc' = "returned"
    /\ UNCHANGED <<mode, w_op, ai_in, ai_out, ghostVars, cleanVars, clampVars, receiving, daemon_running,
                   thread, stopped_at, checked_for, arrived, windowVars, repeatVars, chatVars, now,
                   dispatchVars>>

NextStop ==
    \/ StartReceiving \/ Deliver \/ LoopCheck \/ LoopEmpty \/ LoopReceive
    \/ PluginStep \/ SendStep \/ StopCall \/ StopReturn

\* The next step of the GetMessage thread: f is sequential, so at most one of
\* these can be taken in a state.
LoopThread == LoopCheck \/ LoopEmpty \/ LoopReceive \/ PluginStep \/ SendStep

\* Each thread keeps running: the GetMessage thread takes its next step (a
\* plugin's call and a send come back), and the main thread keeps polling in
\* stop_receiving_message.
SpecStop ==
    /\ InitStop /\ [][NextStop]_vars
    /\ WF_vars(LoopThread) /\ WF_vars(StopReturn)

\* C31: when stop_receiving_message is called while the receive loop runs,
\* the loop does not end while a dispatch is in flight and the dispatch comes
\* to its end; no dispatch starts for a message that was not on the channel
\* when the stop was called, and at most the one get_msg was already waiting
\* for; the loop ends with the running flag false and stop_receiving_message
\* returns, with no dispatch in flight then.
C31_StopCompletes ==
    /\ [][(pc # "idle") => (thread' = "running")]_vars
    /\ [](stopped_at.called =>
            /\ delivered <= stopped_at.arrived
            /\ delivered <= stopped_at.delivered + 1)
    /\ [][(thread = "done") => (delivered' = delivered)]_vars
    /\ [](stop_pc = "returned" => (pc = "idle" /\ ~daemon_running /\ thread # "running"))
    /\ (stop_pc = "waiting") ~> (stop_pc = "returned" /\ ~daemon_running)

\* C31 witness: the stop was called in the middle of a dispatch, the dispatch
\* went on to send its reply, and stop_receiving_message has returned.
C31_Witness ==
    /\ mode = "stop" /\ stop_pc = "returned" /\ thread = "done"
    /\ stopped_at.called /\ stopped_at.pc = "chain"
    /\ delivered = stopped_at.delivered
    /\ outcome = "replied"

====
